---- MODULE Spec2Model ----
(***************************************************************************)
(* The four build_data_* scripts: a wide survey sheet (one row per         *)
(* statement, one column per party/candidate) is reshaped into a nested    *)
(* document.  Texts are sequences of one-character strings, so that        *)
(* trimming, splitting, lower-casing and number parsing are computed.      *)
(***************************************************************************)
EXTENDS Integers, Sequences, FiniteSets, TLC

VARIABLES
    variant,         \* which of the four scripts runs
    pc,              \* position of the run
    vote_text,       \* argument of map_vote_text_to_value
    vote_mapped,     \* its return value
    cell_value,      \* argument of parse_cell_combined
    parsed,          \* its return value
    record,          \* the vote record the loop body stores for that cell
    header_str,      \* argument of parse_candidate_header
    name_party,      \* its return value (name, party)
    n_raw,           \* number of rows of the sheet read by read_excel
    first_row,       \* the sheet's first row (the unlabeled header row)
    columns,         \* data_frame.columns (the promoted first row)
    number_of_rows,  \* data_frame.shape[0]
    row_index,       \* loop variable of the row loop
    info,            \* party_info / candidates_info: ordered dict header -> entry
    combined_output, \* the document built after the loop
    makedirs_called, \* os.makedirs(OUTPUT_DIR, exist_ok=True) has run
    files_written,   \* number of open(..., "w") + json.dump performed
    output_file,     \* content of the JSON file
    seen_rows,       \* history: identifiers in order of first occurrence, the
                     \* last surviving row of each, whether one occurred twice
    last_skip        \* history: the last iteration skipped a row that had a Tema

cellVars == <<vote_text, vote_mapped, cell_value, parsed, record>>
headerVars == <<header_str, name_party>>
sheetVars == <<n_raw, first_row>>
runVars == <<columns, number_of_rows, row_index, info, combined_output,
             makedirs_called, files_written, output_file, seen_rows, last_skip>>
vars == <<variant, pc, cellVars, headerVars, sheetVars, runVars>>

(***************************************************************************)
(* Values.  Python None, the sheet's NA marker (float nan of an empty      *)
(* cell), a str, a float, a pandas Series (what DataFrame.at returns for a *)
(* duplicated label) and a raised exception.                               *)
(***************************************************************************)
None == [t |-> "None"]
NaN == [t |-> "NaN"]
Series == [t |-> "Series"]
Raised == [t |-> "raised"]
Str(s) == [t |-> "str", s |-> s]
\* a finite float m * 10^e, m not divisible by 10 (0.0 is m = 0, e = 0)
Num(m, e) == [t |-> "num", m |-> m, e |-> e]
FloatInf(neg) == [t |-> "inf", neg |-> neg]
FloatNan == [t |-> "fnan"]

IsStr(v) == v.t = "str"
IsNumber(v) == v.t \in {"num", "inf", "fnan"}

\* ---- bounds of the checked inputs
MaxPieces == 3
MaxSegments == 4
MaxSmallSheet == 2
MaxOverCap == 1

\* ---- the variants
ChilePartidos == "chile_partidos_2025"
ChilePres == "chile_presidencial_2025"
PeruPartidos == "peru_partidos_2026"
PeruPres == "peru_pres_2026"
Variants == {ChilePartidos, ChilePres, PeruPartidos, PeruPres}

(***************************************************************************)
(* Characters and str methods.                                             *)
(***************************************************************************)
UpperChars == <<"A","B","C","D","E","F","G","H","I","J","K","L","M","N","O","P",
                "Q","R","S","T","U","V","W","X","Y","Z","Á","É","Í","Ó","Ú","Ñ">>
LowerChars == <<"a","b","c","d","e","f","g","h","i","j","k","l","m","n","o","p",
                "q","r","s","t","u","v","w","x","y","z","á","é","í","ó","ú","ñ">>
DigitChars == <<"0","1","2","3","4","5","6","7","8","9">>
Whitespace == {" "}

IsDigit(c) == \E i \in 1..10 : DigitChars[i] = c
DigitVal(c) == (CHOOSE i \in 1..10 : DigitChars[i] = c) - 1

\* str.lower()
LowerChar(c) ==
    IF \E i \in 1..Len(UpperChars) : UpperChars[i] = c
    THEN LowerChars[CHOOSE i \in 1..Len(UpperChars) : UpperChars[i] = c]
    ELSE c
Lower(s) == [i \in 1..Len(s) |-> LowerChar(s[i])]

\* str.strip()
Strip(s) ==
    LET keep == {i \in 1..Len(s) : s[i] \notin Whitespace}
    IN  IF keep = {} THEN <<>>
        ELSE LET lo == CHOOSE i \in keep : \A j \in keep : i <= j
                 hi == CHOOSE i \in keep : \A j \in keep : j <= i
             IN  SubSeq(s, lo, hi)

\* sub occurs in s at index i
OccursAt(s, sub, i) ==
    /\ i >= 1
    /\ i + Len(sub) - 1 <= Len(s)
    /\ \A k \in 1..Len(sub) : s[i + k - 1] = sub[k]

\* str.find, 1-based, 0 when there is no occurrence at or after from
Find(s, sub, from) ==
    LET hits == {i \in from..Len(s) : OccursAt(s, sub, i)}
    IN  IF hits = {} THEN 0 ELSE CHOOSE i \in hits : \A j \in hits : i <= j

\* the `in` operator on str
Contains(s, sub) == Find(s, sub, 1) # 0

\* str.replace(',', '.')
CommaToPeriod(s) == [i \in 1..Len(s) |-> IF s[i] = "," THEN "." ELSE s[i]]

Delimiter == <<"*", "*", "*">>

\* str.split(sep, maxsplit): cut at the leftmost occurrences, at most maxsplit cuts
RECURSIVE Split(_, _, _)
Split(s, sep, maxsplit) ==
    LET at == Find(s, sep, 1)
    IN  IF maxsplit = 0 \/ at = 0 THEN <<s>>
        ELSE <<SubSeq(s, 1, at - 1)>>
             \o Split(SubSeq(s, at + Len(sep), Len(s)), sep, maxsplit - 1)

(***************************************************************************)
(* float(str): [sign] (inf | infinity | nan | number [exponent]), digits   *)
(* may be grouped by single underscores.  The argument is already stripped.*)
(***************************************************************************)
IsDigitPart(s) ==
    /\ Len(s) >= 1
    /\ IsDigit(s[1])
    /\ IsDigit(s[Len(s)])
    /\ \A i \in 1..Len(s) : IsDigit(s[i]) \/ s[i] = "_"
    /\ \A i \in 1..(Len(s) - 1) : ~(s[i] = "_" /\ s[i + 1] = "_")

OnlyDigits(s) == SelectSeq(s, IsDigit)

RECURSIVE IntOf(_)
IntOf(ds) ==
    IF ds = <<>> THEN 0
    ELSE 10 * IntOf(SubSeq(ds, 1, Len(ds) - 1)) + DigitVal(ds[Len(ds)])

RECURSIVE Normalise(_, _)
Normalise(m, e) ==
    IF m = 0 THEN Num(0, 0)
    ELSE IF m % 10 = 0 THEN Normalise(m \div 10, e + 1)
    ELSE Num(m, e)

HasSign(s) == Len(s) >= 1 /\ s[1] \in {"+", "-"}
Unsigned(s) == IF HasSign(s) THEN SubSeq(s, 2, Len(s)) ELSE s

\* the value of a literal with digits ipart.fpart and exponent expo ("" if none)
FloatValue(neg, ipart, fpart, expo) ==
    Normalise(IntOf(OnlyDigits(ipart) \o OnlyDigits(fpart)) * (IF neg THEN -1 ELSE 1),
              (IF HasSign(expo) /\ expo[1] = "-" THEN -1 ELSE 1)
                  * IntOf(OnlyDigits(Unsigned(expo)))
              - Len(OnlyDigits(fpart)))

\* number [exponent] with the point at index dot of mant (0: no point)
ParseNumber(neg, mant, dot, hasExpo, expo) ==
    IF /\ IF dot = 0 THEN IsDigitPart(mant)
          ELSE \/ /\ IsDigitPart(SubSeq(mant, 1, dot - 1))
                  /\ dot = Len(mant) \/ IsDigitPart(SubSeq(mant, dot + 1, Len(mant)))
               \/ dot = 1 /\ IsDigitPart(SubSeq(mant, 2, Len(mant)))
       /\ hasExpo => IsDigitPart(Unsigned(expo))
    THEN FloatValue(neg,
                    IF dot = 0 THEN mant ELSE SubSeq(mant, 1, dot - 1),
                    IF dot = 0 THEN <<>> ELSE SubSeq(mant, dot + 1, Len(mant)),
                    expo)
    ELSE None

\* body cut at its first "e" (ePos, 0: no exponent)
ParseMantissaExponent(neg, body, ePos) ==
    IF ePos = 0
    THEN ParseNumber(neg, body, Find(body, <<".">>, 1), FALSE, <<>>)
    ELSE ParseNumber(neg, SubSeq(body, 1, ePos - 1),
                     Find(SubSeq(body, 1, ePos - 1), <<".">>, 1),
                     TRUE, SubSeq(body, ePos + 1, Len(body)))

\* the lower-cased literal without its sign
ParseUnsigned(neg, body) ==
    IF body \in {<<"i","n","f">>, <<"i","n","f","i","n","i","t","y">>}
    THEN FloatInf(neg)
    ELSE IF body = <<"n","a","n">> THEN FloatNan
    ELSE ParseMantissaExponent(neg, body, Find(body, <<"e">>, 1))

\* float(s); None when s is no float literal (ValueError)
ParseFloat(s) ==
    ParseUnsigned(HasSign(s) /\ s[1] = "-", Lower(Unsigned(s)))

(***************************************************************************)
(* Module constants and the text helpers of the scripts.                   *)
(***************************************************************************)
MISSING_VOTE_DEFAULT == Num(5, -1)
MISSING_COMMENT_DEFAULT ==
    Str(<<"N","o"," ","s","e"," ","e","n","c","o","n","t","r","ó"," ","i","n","f",
          "o","r","m","a","c","i","ó","n"," ","p","ú","b","l","i","c","a"," ","s",
          "o","b","r","e"," ","s","u"," ","p","o","s","i","c","i","ó","n",".">>)
MISSING_SOURCE_DEFAULT == None

\* the locals of generate_from_new_structure in the two Peru scripts
missing_vote_default == Num(5, -1)
missing_comment_default ==
    Str(<<"N","o"," ","s","e"," ","e","n","c","o","n","t","r","ó",".",".",".">>)
missing_source_default == None

\* clean_text of chile_presidencial, peru_partidos and peru_pres: pd.isna of a
\* Series is a Series, whose truth value raises ValueError
clean_text(s) ==
    IF s = None THEN None
    ELSE IF s = Series THEN Raised
    ELSE IF s = NaN THEN None
    ELSE IF Strip(s.s) # <<>> THEN Str(Strip(s.s)) ELSE None

\* clean_text of chile_partidos: a Series that squeeze() leaves a Series is None
clean_text_chile_partidos(s) ==
    IF s = None THEN None
    ELSE IF s = Series THEN None
    ELSE IF s = NaN THEN None
    ELSE IF Strip(s.s) # <<>> THEN Str(Strip(s.s)) ELSE None

CleanText(v, s) ==
    IF v = ChilePartidos THEN clean_text_chile_partidos(s) ELSE clean_text(s)

\* the vocabulary of peru_pres with its tests in another order
VocabularyValueReordered(vt_low) ==
    IF vt_low \in {<<"s","í">>, <<"s","i">>, <<"y","e","s">>} THEN Num(1, 0)
    ELSE IF vt_low \in {<<"n","o">>} THEN Num(0, 0)
    ELSE IF Contains(vt_low, <<"e","n"," ","c","o","n","t","r","a">>)
            \/ <<"c","o","n","t","r","a">> = vt_low THEN Num(0, 0)
    ELSE IF Contains(vt_low, <<"a"," ","f","a","v","o","r">>)
            \/ vt_low = <<"f","a","v","o","r">> THEN Num(1, 0)
    ELSE IF Contains(vt_low, <<"n","e","u","t","r","a","l">>) THEN Num(5, -1)
    ELSE None

\* the vocabulary tests of peru_pres on vt_low = vt.lower()
VocabularyValue(vt_low) ==
    IF Contains(vt_low, <<"a"," ","f","a","v","o","r">>)
       \/ vt_low = <<"f","a","v","o","r">> THEN Num(1, 0)
    ELSE IF Contains(vt_low, <<"e","n"," ","c","o","n","t","r","a">>)
            \/ <<"c","o","n","t","r","a">> = vt_low THEN Num(0, 0)
    ELSE IF Contains(vt_low, <<"n","e","u","t","r","a","l">>) THEN Num(5, -1)
    ELSE IF vt_low \in {<<"s","í">>, <<"s","i">>, <<"y","e","s">>} THEN Num(1, 0)
    ELSE IF vt_low \in {<<"n","o">>} THEN Num(0, 0)
    ELSE None

\* try: return float(...) / except: the vocabulary
NumberOrVocabulary(num, vt_low) ==
    IF num # None THEN num ELSE VocabularyValue(vt_low)

\* the mapper of peru_pres on vt = str(vote_text).strip()
MapStripped(vt) ==
    IF vt = <<>> THEN None
    ELSE NumberOrVocabulary(ParseFloat(CommaToPeriod(vt)), Lower(vt))

\* map_vote_text_to_value of peru_pres (numeric, then the Spanish vocabulary)
map_vote_text_to_value(text) ==
    IF text = None THEN None ELSE MapStripped(Strip(text.s))

\* the numeric-only mapper on vt = str(vote_text).strip()
MapStrippedNumeric(vt) ==
    IF vt = <<>> THEN None ELSE ParseFloat(CommaToPeriod(vt))

\* map_vote_text_to_value of chile_partidos and peru_partidos (numeric only)
map_vote_numeric_only(text) ==
    IF text = None THEN None ELSE MapStrippedNumeric(Strip(text.s))

\* what parse_cell_combined does with the cleaned first segment; the
\* chile_presidencial script returns vote_part as it is
MapVote(v, vote_part) ==
    IF v = PeruPres THEN map_vote_text_to_value(vote_part)
    ELSE IF v = ChilePres THEN vote_part
    ELSE map_vote_numeric_only(vote_part)

(***************************************************************************)
(* The vote mapper on its own.                                             *)
(***************************************************************************)
VotePieces ==
    {<<"A"," ","f","a","v","o","r">>, <<"f","a","v","o","r">>,
     <<"E","n"," ","c","o","n","t","r","a">>, <<"c","o","n","t","r","a">>,
     <<"n","e","u","t","r","a","l">>, <<"S","Í">>, <<"s","i">>, <<"y","e","s">>,
     <<"n","o">>, <<"t","a","l"," ","v","e","z">>, <<" ">>, <<"1">>, <<"0">>,
     <<",">>, <<"5">>, <<"-">>, <<"e">>, <<"_">>}

RECURSIVE Concat(_)
Concat(ps) == IF ps = <<>> THEN <<>> ELSE Head(ps) \o Concat(Tail(ps))

\* the texts made of at most n pieces
TextsOf(pieces, n) ==
    {Concat(ps) : ps \in UNION {[1..k -> pieces] : k \in 0..n}}

VoteTexts == {None} \cup {Str(s) : s \in TextsOf(VotePieces, MaxPieces)}
MapperVariants == {ChilePartidos, PeruPartidos, PeruPres}

NoRun ==
    /\ n_raw = 0 /\ first_row = <<>> /\ columns = <<>> /\ number_of_rows = 0
    /\ row_index = 0 /\ info = <<>> /\ combined_output = None
    /\ makedirs_called = FALSE /\ files_written = 0 /\ output_file = None
    /\ seen_rows = [order |-> <<>>, last |-> <<>>, twice |-> FALSE]
    /\ last_skip = FALSE

NoHeaderCall == header_str = None /\ name_party = None

InitVote ==
    /\ variant \in MapperVariants
    /\ pc = "vote_call"
    /\ vote_text \in VoteTexts
    /\ vote_mapped = None
    /\ cell_value = None /\ parsed = None /\ record = None
    /\ NoHeaderCall
    /\ NoRun

CallMapVote ==
    /\ pc = "vote_call"
    /\ vote_mapped' = (IF variant = PeruPres THEN map_vote_text_to_value(vote_text)
                       ELSE map_vote_numeric_only(vote_text))
    /\ pc' = "vote_return"
    /\ UNCHANGED <<variant, vote_text, cell_value, parsed, record, headerVars,
                   sheetVars, runVars>>

NextVote == CallMapVote

SpecVote == InitVote /\ [][NextVote]_vars

(***************************************************************************)
(* C4.  The vocabulary of the peru_pres mapper as a rule table: a text     *)
(* matches a rule when its lower-cased form contains one of `has` or is    *)
(* one of `is`.                                                            *)
(***************************************************************************)
VocabularyRules ==
    << [has |-> {<<"a"," ","f","a","v","o","r">>}, is |-> {<<"f","a","v","o","r">>},
        val |-> Num(1, 0)],
       [has |-> {<<"e","n"," ","c","o","n","t","r","a">>},
        is |-> {<<"c","o","n","t","r","a">>}, val |-> Num(0, 0)],
       [has |-> {<<"n","e","u","t","r","a","l">>}, is |-> {}, val |-> Num(5, -1)],
       [has |-> {}, is |-> {<<"s","í">>, <<"s","i">>, <<"y","e","s">>},
        val |-> Num(1, 0)],
       [has |-> {}, is |-> {<<"n","o">>}, val |-> Num(0, 0)] >>

RuleMatches(k, low) ==
    \/ \E h \in VocabularyRules[k].has : Contains(low, h)
    \/ low \in VocabularyRules[k].is

MatchingRules(low) == {k \in 1..Len(VocabularyRules) : RuleMatches(k, low)}

\* C4: in the vocabulary-enabled variant the mapper returns absent for an
\* absent or empty text, else the parsed number (comma as decimal point,
\* unclamped) when the text is numeric, else the value of the first vocabulary
\* rule that matches, else absent.
C4_VocabularyFirstMatch ==
    (pc = "vote_return" /\ variant = PeruPres) =>
        /\ vote_text = None => vote_mapped = None
        /\ vote_text # None =>
             LET vt == Strip(vote_text.s)
                 low == Lower(vt)
                 num == ParseFloat(CommaToPeriod(vt))
                 hit == MatchingRules(low)
             IN  /\ vt = <<>> => vote_mapped = None
                 /\ (vt # <<>> /\ num # None) => vote_mapped = num
                 /\ (vt # <<>> /\ num = None /\ hit = {}) => vote_mapped = None
                 /\ (vt # <<>> /\ num = None /\ hit # {}) =>
                      \E k \in hit :
                          /\ \A j \in hit : k <= j
                          /\ vote_mapped = VocabularyRules[k].val
        /\ vote_text = Str(<<"1">>) => vote_mapped = Num(1, 0)
        /\ vote_text = Str(<<"1", ",", "0">>) => vote_mapped = Num(1, 0)
        /\ vote_text = Str(<<"5">>) => vote_mapped = Num(5, 0)
        /\ vote_text = Str(<<"-", "1">>) => vote_mapped = Num(-1, 0)
        /\ vote_text = Str(<<"0", ",", "5">>) => vote_mapped = Num(5, -1)
        /\ vote_text = Str(<<"A"," ","f","a","v","o","r">>) => vote_mapped = Num(1, 0)
        /\ vote_text = Str(<<"E","n"," ","c","o","n","t","r","a">>)
             => vote_mapped = Num(0, 0)
        /\ vote_text = Str(<<"n","e","u","t","r","a","l">>) => vote_mapped = Num(5, -1)
        /\ vote_text = Str(<<"t","a","l"," ","v","e","z">>) => vote_mapped = None

\* a text that matches the "a favor" rule and the "en contra" rule was mapped
C4_Witness ==
    /\ pc = "vote_return"
    /\ variant = PeruPres
    /\ vote_text # None
    /\ ParseFloat(CommaToPeriod(Strip(vote_text.s))) = None
    /\ {1, 2} \subseteq MatchingRules(Lower(Strip(vote_text.s)))
    /\ Find(Lower(vote_text.s), <<"e","n"," ","c","o","n","t","r","a">>, 1)
         < Find(Lower(vote_text.s), <<"a"," ","f","a","v","o","r">>, 1)
    /\ vote_mapped = Num(1, 0)

(***************************************************************************)
(* parse_cell_combined and the body of the cell loop.                      *)
(***************************************************************************)
Triple(vote, comment, source) == [vote |-> vote, comment |-> comment, source |-> source]

\* str.split('***', 2) stands here with the cut limit dropped
SplitUnlimited(s, sep, maxsplit) ==
    Split(s, sep, Len(s))

SplitCell(s, sep, maxsplit) == Split(s, sep, maxsplit)

\* clean_text as it would be without .strip()
CleanTextNoStrip(v, s) ==
    IF s \in {None, NaN} THEN None
    ELSE IF s = Series THEN (IF v = ChilePartidos THEN None ELSE Raised)
    ELSE IF s.s # <<>> THEN s ELSE None

CleanCell(v, s) == CleanText(v, s)

\* clean_text(parts[k]) if len(parts) >= k else None
PartOrNone(v, parts, k) ==
    IF Len(parts) >= k THEN CleanText(v, Str(parts[k])) ELSE None

\* parse_cell_combined from the split on
ParseParts(v, parts) ==
    Triple(MapVote(v, PartOrNone(v, parts, 1)),
           PartOrNone(v, parts, 2),
           PartOrNone(v, parts, 3))

\* parse_cell_combined from raw = clean_text(cell_value) on
ParseCleaned(v, raw) ==
    IF raw = Raised THEN Raised
    ELSE IF raw = None
    THEN Triple(MISSING_VOTE_DEFAULT, MISSING_COMMENT_DEFAULT, MISSING_SOURCE_DEFAULT)
    ELSE ParseParts(v, SplitCell(raw.s, Delimiter, 2))

parse_cell_combined(v, cell) == ParseCleaned(v, CleanCell(v, cell))

\* the defaults the loop body enforces: the Peru scripts use the locals of
\* generate_from_new_structure, the Chile scripts the module constants
LoopDefaults(v) ==
    IF v \in {PeruPartidos, PeruPres}
    THEN Triple(missing_vote_default, missing_comment_default, missing_source_default)
    ELSE Triple(MISSING_VOTE_DEFAULT, MISSING_COMMENT_DEFAULT, MISSING_SOURCE_DEFAULT)

\* the defaults enforced field by field instead of for the whole triple
EnforceDefaultsPerField(v, tr) ==
    Triple(IF tr.vote = None THEN LoopDefaults(v).vote ELSE tr.vote,
           IF tr.comment = None THEN LoopDefaults(v).comment ELSE tr.comment,
           IF tr.source = None THEN LoopDefaults(v).source ELSE tr.source)

EnforceDefaults(v, tr) ==
    IF tr.vote = None /\ tr.comment = None /\ tr.source = None
    THEN LoopDefaults(v)
    ELSE tr

\* the dict stored under the question identifier
MakeRecord(topic_text, statement_text, tr) ==
    [tema |-> topic_text, question |-> statement_text,
     vote |-> tr.vote, comment |-> tr.comment, source |-> tr.source]

\* the loop body from the parsed triple on; Raised when parsing raised
RecordOfParsed(v, topic_text, statement_text, tr) ==
    IF tr = Raised THEN Raised
    ELSE MakeRecord(topic_text, statement_text, EnforceDefaults(v, tr))

VoteRecord(v, topic_text, statement_text, cell) ==
    RecordOfParsed(v, topic_text, statement_text, parse_cell_combined(v, cell))

(***************************************************************************)
(* The cell interpreter on its own: one cell of a row whose Statement is   *)
(* "q" and whose Tema is empty.                                            *)
(***************************************************************************)
SegTexts ==
    {<<>>, <<" ">>, <<"A"," ","f","a","v","o","r">>, <<"0",",","7">>,
     <<"t","a","l"," ","v","e","z">>, <<" ","c"," ">>, <<"*">>}

ExampleCells ==
    {<<"A"," ","f","a","v","o","r","*","*","*","B","u","e","n","a"," ","p","r","o","p","u","e","s","t","a","*","*","*","h","t","t","p",":","/","/","x">>,
     <<"0",".","7","*","*","*","C","o","m","e","n","t","a","r","i","o">>,
     <<" "," "," ">>}

RECURSIVE Join(_, _)
Join(segs, sep) ==
    IF Len(segs) = 1 THEN segs[1]
    ELSE segs[1] \o sep \o Join(Tail(segs), sep)

CellTexts ==
    {Join(segs, Delimiter) : segs \in UNION {[1..k -> SegTexts] : k \in 1..MaxSegments}}
        \cup ExampleCells

CellInputs == {None, NaN, Series} \cup {Str(s) : s \in CellTexts}

CellStatement == Str(<<"q">>)

InitCell ==
    /\ variant \in Variants
    /\ pc = "cell_call"
    /\ cell_value \in CellInputs
    /\ parsed = None
    /\ record = None
    /\ vote_text = None /\ vote_mapped = None
    /\ NoHeaderCall
    /\ NoRun

InterpretCell ==
    /\ pc = "cell_call"
    /\ parsed' = parse_cell_combined(variant, cell_value)
    /\ record' = VoteRecord(variant, None, CellStatement, cell_value)
    /\ pc' = "cell_return"
    /\ UNCHANGED <<variant, vote_text, vote_mapped, cell_value, headerVars,
                   sheetVars, runVars>>

NextCell == InterpretCell

SpecCell == InitCell /\ [][NextCell]_vars

(***************************************************************************)
(* Claims about the cell interpreter (checked under SpecCell).             *)
(***************************************************************************)
\* the missing-cell default triple as the specification words it
PlaceholderComment ==
    Str(<<"N","o"," ","s","e"," ","e","n","c","o","n","t","r","ó"," ","i","n","f",
          "o","r","m","a","c","i","ó","n"," ","p","ú","b","l","i","c","a"," ","s",
          "o","b","r","e"," ","s","u"," ","p","o","s","i","c","i","ó","n",".">>)
DefaultTriple == Triple(Num(5, -1), PlaceholderComment, None)

RecordTriple(r) == Triple(r.vote, r.comment, r.source)

\* None, the NA marker, the empty and the whitespace-only text
IsAbsentCell(c) ==
    \/ c \in {None, NaN}
    \/ IsStr(c) /\ \A i \in 1..Len(c.s) : c.s[i] \in Whitespace

\* C1: in every variant a cell whose cleaned value is absent parses to exactly
\* the missing-cell default triple (0.5, the placeholder, no source), and the
\* vote record stored for it carries these three values.
C1_AbsentCellDefault ==
    (pc = "cell_return" /\ IsAbsentCell(cell_value)) =>
        /\ parsed = DefaultTriple
        /\ record # Raised
        /\ RecordTriple(record) = DefaultTriple

\* a whitespace-only cell was interpreted
C1_Witness ==
    /\ pc = "cell_return"
    /\ cell_value = Str(<<" ", " ", " ">>)
    /\ RecordTriple(record) = DefaultTriple

\* C2: in every variant a non-empty cell whose mapped vote, comment and source
\* are all absent gets the same vote record as a fully empty cell: the
\* missing-cell default triple with the full placeholder comment.
C2_AllAbsentSameAsEmpty ==
    (/\ pc = "cell_return"
     /\ IsStr(cell_value)
     /\ ~IsAbsentCell(cell_value)
     /\ parsed = Triple(None, None, None)) =>
        /\ record = VoteRecord(variant, None, CellStatement, NaN)
        /\ RecordTriple(record) = DefaultTriple

\* C3: in every variant the vote of a stored record is a number or absent,
\* never the raw position text.
C3_VoteIsNumberOrAbsent ==
    (pc = "cell_return" /\ record # Raised) =>
        (record.vote = None \/ IsNumber(record.vote))

\* C10: the segments cut by the first and the second "***" of the trimmed cell
Cut1(raw) == Find(raw, Delimiter, 1)
Cut2(raw) == IF Cut1(raw) = 0 THEN 0 ELSE Find(raw, Delimiter, Cut1(raw) + 3)
Trimmed(s) == IF Strip(s) = <<>> THEN None ELSE Str(Strip(s))
PositionSegment(raw) ==
    Trimmed(IF Cut1(raw) = 0 THEN raw ELSE SubSeq(raw, 1, Cut1(raw) - 1))
CommentSegment(raw) ==
    IF Cut1(raw) = 0 THEN None
    ELSE IF Cut2(raw) = 0 THEN Trimmed(SubSeq(raw, Cut1(raw) + 3, Len(raw)))
    ELSE Trimmed(SubSeq(raw, Cut1(raw) + 3, Cut2(raw) - 1))
SourceSegment(raw) ==
    IF Cut2(raw) = 0 THEN None ELSE Trimmed(SubSeq(raw, Cut2(raw) + 3, Len(raw)))

\* C10: a non-absent cell is cut at its first and second "***" into position
\* text, comment and source; later "***" stay verbatim in the source; each
\* segment is trimmed on its own, and an empty or missing segment is absent.
C10_SplitAtMostThree ==
    (pc = "cell_return" /\ IsStr(cell_value) /\ ~IsAbsentCell(cell_value)) =>
        LET raw == Strip(cell_value.s)
        IN  /\ parsed # Raised
            /\ parsed.comment = CommentSegment(raw)
            /\ parsed.source = SourceSegment(raw)
            /\ parsed.vote = MapVote(variant, PositionSegment(raw))
            /\ variant = ChilePres => parsed.vote = PositionSegment(raw)
            /\ cell_value = Str(<<"A"," ","f","a","v","o","r","*","*","*","B","u","e","n","a"," ","p","r","o","p","u","e","s","t","a","*","*","*","h","t","t","p",":","/","/","x">>) =>
                 /\ parsed.comment = Str(<<"B","u","e","n","a"," ","p","r","o","p","u","e","s","t","a">>)
                 /\ parsed.source = Str(<<"h","t","t","p",":","/","/","x">>)
                 /\ variant = PeruPres => parsed.vote = Num(1, 0)
            /\ cell_value = Str(<<"0",".","7","*","*","*","C","o","m","e","n","t","a","r","i","o">>) =>
                 /\ parsed.comment = Str(<<"C","o","m","e","n","t","a","r","i","o">>)
                 /\ parsed.source = None
                 /\ variant # ChilePres => parsed.vote = Num(7, -1)

\* a cell with more than two "***" was parsed and its source kept one of them
C10_Witness ==
    /\ pc = "cell_return"
    /\ IsStr(cell_value)
    /\ parsed # Raised
    /\ parsed.comment # None
    /\ parsed.source # None
    /\ Contains(parsed.source.s, Delimiter)

\* a non-absent cell was interpreted and some field of its triple is present
PartialCell ==
    /\ pc = "cell_return"
    /\ IsStr(cell_value)
    /\ ~IsAbsentCell(cell_value)
    /\ parsed # Raised
    /\ parsed # Triple(None, None, None)

\* C12: in every variant, when at least one of mapped vote, comment and source
\* of a cell is present, the stored vote record carries exactly the parsed
\* triple: an absent field stays absent (no 0.5 for a missing vote, no
\* placeholder for a missing comment), a present one is the cell's segment.
C12_PartialDataPreserved ==
    PartialCell =>
        /\ record # Raised
        /\ RecordTriple(record) = parsed
        /\ record.comment = CommentSegment(Strip(cell_value.s))
        /\ record.source = SourceSegment(Strip(cell_value.s))
        /\ PositionSegment(Strip(cell_value.s)) = None => record.vote = None
        /\ record.tema = None /\ record.question = CellStatement

\* a comment-only cell was stored: its comment kept, vote and source absent
C12_Witness ==
    /\ pc = "cell_return"
    /\ cell_value = Str(<<"*", "*", "*", " ", "c", " ">>)
    /\ record # Raised
    /\ RecordTriple(record) = Triple(None, Str(<<"c">>), None)

(***************************************************************************)
(* generate_from_new_structure.                                            *)
(***************************************************************************)
number_of_topics == 8

Tema == Str(<<"T","e","m","a">>)
Statement == Str(<<"S","t","a","t","e","m","e","n","t">>)

\* DataFrame.head(k) on a frame of n rows
HeadRows(n, k) == IF n < k THEN n ELSE k

\* the truncation with the first head() of peru_pres left out
KeptRowsLastHeadOnly(v, n) ==
    IF v = ChilePartidos THEN HeadRows(n, 15)
    ELSE IF v = ChilePres THEN HeadRows(n, 21)
    ELSE IF v = PeruPartidos THEN HeadRows(n, number_of_topics + 1)
    ELSE HeadRows(n, 12)

\* rows of raw_dataframe after the head() calls of the variant
KeptRows(v, n) ==
    IF v = ChilePartidos THEN HeadRows(n, 15)
    ELSE IF v = ChilePres THEN HeadRows(n, 21)
    ELSE IF v = PeruPartidos THEN HeadRows(n, number_of_topics + 1)
    ELSE HeadRows(HeadRows(n, number_of_topics + 1), 12)

\* the validation with only the Statement label required
ColumnsValidStatementOnly(cols) ==
    \E i \in 1..Len(cols) : cols[i] = Statement

\* "Statement" in data_frame.columns and "Tema" in data_frame.columns
ColumnsValid(cols) ==
    /\ \E i \in 1..Len(cols) : cols[i] = Statement
    /\ \E i \in 1..Len(cols) : cols[i] = Tema

\* [column_name for column_name in data_frame.columns if column_name not in (...)]
IsEntityLabel(c) == c \notin {Tema, Statement}
EntityColumns(cols) == SelectSeq(cols, IsEntityLabel)

\* data_frame.at[row_index, label]: the cell, or a Series when the label is
\* carried by several columns
At(cols, row, label) ==
    LET where == {i \in 1..Len(cols) : cols[i] = label}
    IN  IF Cardinality(where) = 1 THEN row[CHOOSE i \in where : TRUE] ELSE Series

\* str(x) of a header cell
TextOf(x) == IF x = NaN THEN <<"n","a","n">> ELSE x.s

\* re.match(r'^(.*?)\s*\((.*?)\)\s*$', h) on the stripped header h: it ends
\* with ")" and holds a "("; the lazy first group stops before the first "("
MatchHeader(h, open) ==
    IF Len(h) >= 1 /\ h[Len(h)] = ")" /\ open # 0
    THEN [name |-> Str(Strip(SubSeq(h, 1, open - 1))),
          party |-> Str(Strip(SubSeq(h, open + 1, Len(h) - 1)))]
    ELSE [name |-> Str(h), party |-> None]

StrippedHeader(h) == MatchHeader(h, Find(h, <<"(">>, 1))

parse_candidate_header(header) ==
    IF header = None THEN [name |-> None, party |-> None]
    ELSE StrippedHeader(Strip(TextOf(header)))

IsCandidateVariant(v) == v \in {ChilePres, PeruPres}

\* d[key] = val on a dict kept as a sequence of [key, val] in insertion order,
\* here with the entry moved to the end when the key is overwritten
DictSetMoveToEnd(d, key, val) ==
    SelectSeq(d, LAMBDA e : e.key # key) \o <<[key |-> key, val |-> val]>>

\* d[key] = val: overwrite in place, or append a new key
DictSet(d, key, val) ==
    IF \E i \in 1..Len(d) : d[i].key = key
    THEN [i \in 1..Len(d) |-> IF d[i].key = key THEN [key |-> key, val |-> val] ELSE d[i]]
    ELSE Append(d, [key |-> key, val |-> val])

DictGet(d, key) == d[CHOOSE i \in 1..Len(d) : d[i].key = key].val
Keys(d) == [i \in 1..Len(d) |-> d[i].key]

\* the entry of a candidate column from its parsed header
CandidateEntry(col, np) ==
    [header |-> col, name |-> np.name, party |-> np.party, votes |-> <<>>]

\* the entry prepared for one entity column
EntityEntry(v, col) ==
    IF IsCandidateVariant(v)
    THEN CandidateEntry(col, parse_candidate_header(col))
    ELSE [header |-> col, name |-> col, votes |-> <<>>]

\* the loop that fills party_info / candidates_info
RECURSIVE PrepareInfo(_, _, _)
PrepareInfo(v, d, cols) ==
    IF cols = <<>> THEN d
    ELSE PrepareInfo(v, DictSet(d, Head(cols), EntityEntry(v, Head(cols))), Tail(cols))

\* the skip test with a Tema enough to keep the row
SkipRowNeedsNoTema(topic_text, statement_text) ==
    statement_text = None /\ topic_text = None

\* if statement_text is None: continue
SkipRow(topic_text, statement_text) == statement_text = None

\* f"{topic_text}: {statement_text}" if topic_text else statement_text
QuestionIdentifier(topic_text, statement_text) ==
    LET st == IF statement_text = None THEN <<"N","o","n","e">> ELSE statement_text.s
    IN  IF topic_text # None THEN Str(topic_text.s \o <<":", " ">> \o st)
        ELSE IF statement_text = None THEN None ELSE Str(st)

\* the store left out when the record is the one of an empty cell
StoreRecordPresentOnly(d, col, qid, rec) ==
    IF rec.comment \in {MISSING_COMMENT_DEFAULT, missing_comment_default}
    THEN d
    ELSE DictSet(d, col, [DictGet(d, col) EXCEPT !.votes = DictSet(@, qid, rec)])

\* candidates_info[col]["votes"][qid] = rec
StoreRecord(d, col, qid, rec) ==
    DictSet(d, col, [DictGet(d, col) EXCEPT !.votes = DictSet(@, qid, rec)])

\* the inner loop over the entity columns: stops where parse_cell_combined raises
RECURSIVE StoreCells(_, _, _, _, _, _, _)
RECURSIVE StoreOne(_, _, _, _, _, _, _, _)
StoreOne(v, d, todo, cols, row, topic_text, statement_text, rec) ==
    IF rec = Raised THEN [info |-> d, raised |-> TRUE]
    ELSE StoreCells(v,
                    StoreRecord(d, Head(todo),
                                QuestionIdentifier(topic_text, statement_text), rec),
                    Tail(todo), cols, row, topic_text, statement_text)

StoreCells(v, d, todo, cols, row, topic_text, statement_text) ==
    IF todo = <<>> THEN [info |-> d, raised |-> FALSE]
    ELSE StoreOne(v, d, todo, cols, row, topic_text, statement_text,
                  VoteRecord(v, topic_text, statement_text, At(cols, row, Head(todo))))

\* the value stored for one entity in the document
EntityDoc(v, e) ==
    IF IsCandidateVariant(v)
    THEN [name |-> e.name, party |-> e.party, votes |-> e.votes]
    ELSE [name |-> e.name, votes |-> e.votes]

\* the final loop: combined_output[category][entry["header"]] = {...}
RECURSIVE BuildEntities(_, _, _)
BuildEntities(v, out, d) ==
    IF d = <<>> THEN out
    ELSE BuildEntities(v, DictSet(out, Head(d).val.header, EntityDoc(v, Head(d).val)),
                       Tail(d))

Category(v) == IF IsCandidateVariant(v) THEN "candidates" ELSE "parties"

(***************************************************************************)
(* The sheets the runs are checked on.  A sheet is its number of rows, its *)
(* first row and its data rows; a data row is an input of the iteration    *)
(* that reads it, so rows that head() drops or that follow a raise are     *)
(* never drawn.  Two empty header cells in one sheet are not among the     *)
(* header rows.                                                            *)
(***************************************************************************)
EntityA == Str(<<"A">>)
EntityB == Str(<<"B", " ", "(", "P", ")">>)

HeaderRows ==
    { <<Tema, Statement, EntityA, EntityB>>,
      <<Tema, Statement, EntityA, EntityA>>,
      <<Statement, NaN, Tema>>,
      <<Tema, Statement>>,
      <<Tema, EntityA>>,
      <<Statement, EntityA>>,
      <<Str(<<"t","e","m","a">>), Statement, EntityA>>,
      <<Tema, Tema, Statement, EntityA>> }

\* the number of questions each source sheet is documented to hold
QuestionCount(v) ==
    IF v = ChilePartidos THEN 14
    ELSE IF v = ChilePres THEN 20
    ELSE 8

\* short sheets, and sheets as long as the variant's question list or longer
SheetSizes(v) ==
    (0..MaxSmallSheet)
        \cup {QuestionCount(v) + 1 + d : d \in 0..MaxOverCap}

TopicCells == {Str(<<" ">>), Str(<<"T">>)}
StatementCells == {NaN, Str(<<"S">>)}
EntityCells == {NaN, Str(<<"1", "*", "*", "*", "c">>)}

CellsUnder(label) ==
    IF label = Tema THEN TopicCells
    ELSE IF label = Statement THEN StatementCells
    ELSE EntityCells

\* the data rows a sheet with these column labels may hold
RECURSIVE DataRows(_)
DataRows(cols) ==
    IF cols = <<>> THEN {<<>>}
    ELSE {<<c>> \o rest : c \in CellsUnder(Head(cols)), rest \in DataRows(Tail(cols))}

Init ==
    /\ variant \in Variants
    /\ pc = "start"
    /\ n_raw \in SheetSizes(variant)
    /\ first_row \in (IF n_raw = 0 THEN {<<>>} ELSE HeaderRows)
    /\ vote_text = None /\ vote_mapped = None
    /\ cell_value = None /\ parsed = None /\ record = None
    /\ NoHeaderCall
    /\ columns = <<>> /\ number_of_rows = 0
    /\ row_index = 0 /\ info = <<>> /\ combined_output = None
    /\ makedirs_called = FALSE /\ files_written = 0 /\ output_file = None
    /\ seen_rows = [order |-> <<>>, last |-> <<>>, twice |-> FALSE]
    /\ last_skip = FALSE

\* read_excel, head(), the empty-sheet test
ReadSheet ==
    /\ pc = "start"
    /\ IF KeptRows(variant, n_raw) < 1
       THEN pc' = "raised" /\ UNCHANGED number_of_rows
       ELSE pc' = "promote" /\ number_of_rows' = KeptRows(variant, n_raw) - 1
    /\ UNCHANGED <<variant, cellVars, headerVars, sheetVars, columns, row_index, info,
                   combined_output, makedirs_called, files_written, output_file,
                   seen_rows, last_skip>>

\* the first row becomes the labels and is dropped; the labels are validated
PromoteHeader ==
    /\ pc = "promote"
    /\ columns' = first_row
    /\ pc' = IF ColumnsValid(first_row) THEN "prepare" ELSE "raised"
    /\ UNCHANGED <<variant, cellVars, headerVars, sheetVars, number_of_rows, row_index, info,
                   combined_output, makedirs_called, files_written, output_file,
                   seen_rows, last_skip>>

PrepareEntities ==
    /\ pc = "prepare"
    /\ info' = PrepareInfo(variant, <<>>, EntityColumns(columns))
    /\ row_index' = 0
    /\ pc' = "loop"
    /\ UNCHANGED <<variant, cellVars, headerVars, sheetVars, columns, number_of_rows,
                   combined_output, makedirs_called, files_written, output_file,
                   seen_rows, last_skip>>

\* the history of surviving rows, kept beside the dicts of the run
Remember(h, qid, row) ==
    [order |-> IF \E i \in 1..Len(h.order) : h.order[i] = qid
               THEN h.order ELSE Append(h.order, qid),
     last |-> [q \in {h.order[i] : i \in 1..Len(h.order)} \cup {qid} |->
                  IF q = qid THEN row ELSE h.last[q]],
     twice |-> h.twice \/ \E i \in 1..Len(h.order) : h.order[i] = qid]

\* the end of an iteration that stored the row's cells
AfterStore(row, qid, stored) ==
    /\ info' = stored.info
    /\ IF stored.raised
       THEN pc' = "raised" /\ UNCHANGED <<row_index, seen_rows, last_skip>>
       ELSE /\ pc' = "loop"
            /\ row_index' = row_index + 1
            /\ seen_rows' = Remember(seen_rows, qid, row)
            /\ last_skip' = FALSE

\* an iteration from the cleaned Tema and Statement on
RowStepCleaned(row, topic_text, statement_text) ==
    IF topic_text = Raised \/ statement_text = Raised
    THEN pc' = "raised" /\ UNCHANGED <<info, row_index, seen_rows, last_skip>>
    ELSE IF SkipRow(topic_text, statement_text)
    THEN /\ pc' = "loop"
         /\ row_index' = row_index + 1
         /\ last_skip' = (topic_text # None)
         /\ UNCHANGED <<info, seen_rows>>
    ELSE AfterStore(row, QuestionIdentifier(topic_text, statement_text),
                    StoreCells(variant, info, EntityColumns(columns), columns, row,
                               topic_text, statement_text))

\* one iteration of the row loop on the row the sheet holds at row_index
RowStep(row) ==
    /\ pc = "loop"
    /\ row_index < number_of_rows
    /\ RowStepCleaned(row, CleanText(variant, At(columns, row, Tema)),
                      CleanText(variant, At(columns, row, Statement)))
    /\ UNCHANGED <<variant, cellVars, headerVars, sheetVars, columns, number_of_rows,
                   combined_output, makedirs_called, files_written, output_file>>

ProcessRow == \E row \in DataRows(columns) : RowStep(row)

BuildOutput ==
    /\ pc = "loop"
    /\ row_index = number_of_rows
    /\ combined_output' = [category |-> Category(variant),
                           entities |-> BuildEntities(variant, <<>>, info)]
    /\ pc' = "makedirs"
    /\ UNCHANGED <<variant, cellVars, headerVars, sheetVars, columns, number_of_rows, row_index,
                   info, makedirs_called, files_written, output_file, seen_rows,
                   last_skip>>

MakeDirs ==
    /\ pc = "makedirs"
    /\ makedirs_called' = TRUE
    /\ pc' = "write"
    /\ UNCHANGED <<variant, cellVars, headerVars, sheetVars, columns, number_of_rows, row_index,
                   info, combined_output, files_written, output_file, seen_rows,
                   last_skip>>

WriteFile ==
    /\ pc = "write"
    /\ output_file' = combined_output
    /\ files_written' = files_written + 1
    /\ pc' = "done"
    /\ UNCHANGED <<variant, cellVars, headerVars, sheetVars, columns, number_of_rows, row_index,
                   info, combined_output, makedirs_called, seen_rows, last_skip>>

Next ==
    \/ ReadSheet
    \/ PromoteHeader
    \/ PrepareEntities
    \/ ProcessRow
    \/ BuildOutput
    \/ MakeDirs
    \/ WriteFile

Spec == Init /\ [][Next]_vars

(***************************************************************************)
(* Claims about the run (checked under Spec).                              *)
(***************************************************************************)
HasLabel(row, label) == \E i \in 1..Len(row) : row[i] = label

\* the fatal conditions: no row at all, or a mandatory label missing
FatalInput ==
    \/ n_raw = 0
    \/ ~HasLabel(first_row, Str(<<"T","e","m","a">>))
    \/ ~HasLabel(first_row, Str(<<"S","t","a","t","e","m","e","n","t">>))

\* C5: a run completes with exactly one file written, or raises before the
\* output directory is made and before anything is written; after a fatal
\* condition (empty sheet, missing Tema or Statement label) no step of the
\* run past the validation is ever reached.
C5_AbortBeforeAnyWrite ==
    /\ files_written <= 1
    /\ pc = "raised" => (~makedirs_called /\ files_written = 0 /\ output_file = None)
    /\ pc = "done" => (makedirs_called /\ files_written = 1 /\ output_file # None)
    /\ files_written = 1 => pc = "done"
    /\ FatalInput =>
         /\ pc \in {"start", "promote", "raised"}
         /\ ~makedirs_called
         /\ files_written = 0

\* a sheet whose header spells the topic label in lower case was rejected
C5_Witness ==
    /\ pc = "raised"
    /\ n_raw >= 1
    /\ HasLabel(first_row, Str(<<"S","t","a","t","e","m","e","n","t">>))
    /\ HasLabel(first_row, Str(<<"t","e","m","a">>))
    /\ ~makedirs_called

\* the record the row gives the entity column labelled `label`
ExpectedRecord(label, row) ==
    VoteRecord(variant,
               CleanText(variant, At(columns, row, Tema)),
               CleanText(variant, At(columns, row, Statement)),
               At(columns, row, label))

\* C6: under each question identifier every entity holds exactly one entry,
\* the record of the last surviving row with that identifier, at the position
\* of the first row that produced the identifier.
C6_LastRowWinsInPlace ==
    pc \in {"loop", "makedirs", "write", "done"} =>
        \A i \in 1..Len(info) :
            LET votes == info[i].val.votes
            IN  /\ Keys(votes) = seen_rows.order
                /\ \A j \in 1..Len(votes) :
                       votes[j].val = ExpectedRecord(info[i].val.header,
                                                     seen_rows.last[votes[j].key])

\* a run ended in which the first identifier came back after another one
C6_Witness ==
    /\ pc = "done"
    /\ seen_rows.twice
    /\ Len(seen_rows.order) = 2
    /\ Len(info) = 2
    /\ \E q \in DOMAIN seen_rows.last :
           /\ seen_rows.order[1] = q
           /\ DictGet(info[1].val.votes, q) # DictGet(info[2].val.votes, q)

\* the row caps as documented: question count + 1
DocumentedCap(v) ==
    IF v = ChilePartidos THEN 15
    ELSE IF v = ChilePres THEN 21
    ELSE 9

\* C7: only the first K raw rows (header included) are kept, K = 15, 21, 9, 9;
\* at most K - 1 data rows are processed and every stored record comes from
\* one of them.
C7_RowCap ==
    pc \notin {"start", "raised", "vote_call", "vote_return", "cell_call", "cell_return"} =>
        /\ number_of_rows + 1 = HeadRows(n_raw, DocumentedCap(variant))
        /\ number_of_rows <= DocumentedCap(variant) - 1
        /\ row_index <= number_of_rows
        /\ Len(seen_rows.order) <= row_index
        /\ \A i \in 1..Len(info) :
               Len(info[i].val.votes) <= DocumentedCap(variant) - 1

\* a sheet longer than the cap was processed to the end
C7_Witness ==
    /\ pc = "done"
    /\ n_raw > DocumentedCap(variant)
    /\ row_index = DocumentedCap(variant) - 1
    /\ \E i \in 1..Len(info) : info[i].val.votes # <<>>

\* the identifiers the checked sheets can give a row that has a Statement
StatementIdentifiers ==
    {Str(<<"S">>), Str(<<"T", ":", " ", "S">>)}

\* C8: an iteration on a row whose Statement is absent changes no entity's
\* votes, whatever its Tema and entity cells hold, and no identifier ever
\* stems from a row without a Statement.
C8_RowWithoutStatementSkipped ==
    /\ [][\A row \in DataRows(columns) :
            (IsAbsentCell(At(columns, row, Statement)) /\ RowStep(row))
                => info' = info]_vars
    /\ [](\A i \in 1..Len(info) :
            \A j \in 1..Len(info[i].val.votes) :
                info[i].val.votes[j].key \in StatementIdentifiers)

\* a row with a Tema and no Statement was skipped after votes had been stored
C8_Witness ==
    /\ pc = "loop"
    /\ last_skip
    /\ \E i \in 1..Len(info) : info[i].val.votes # <<>>

\* C9: every non-metadata column becomes its own entity, duplicates included:
\* the run completes and the document holds as many entities as the sheet has
\* non-metadata columns.
C9_EveryColumnItsOwnEntity ==
    /\ pc = "done" =>
         Len(output_file.entities) = Len(EntityColumns(first_row))
    /\ pc = "raised" =>
         \/ FatalInput
         \/ Cardinality({i \in 1..Len(first_row) : first_row[i] = Tema}) > 1
         \/ Cardinality({i \in 1..Len(first_row) : first_row[i] = Statement}) > 1


(***************************************************************************)
(* parse_candidate_header on its own: one call on one header, in the two   *)
(* candidate scripts (their definitions are the same text).                *)
(***************************************************************************)
MaxHeaderPieces == 3

HeaderPieces ==
    {<<"J">>, <<" ">>, <<"(">>, <<")">>,
     <<" ", "(", "P", ")">>, <<"(", "Q", " ", ")">>}

HeaderTexts == TextsOf(HeaderPieces, MaxHeaderPieces)
HeaderInputs == {None, NaN} \cup {Str(s) : s \in HeaderTexts}

InitHeader ==
    /\ variant \in {ChilePres, PeruPres}
    /\ pc = "header_call"
    /\ header_str \in HeaderInputs
    /\ name_party = None
    /\ vote_text = None /\ vote_mapped = None
    /\ cell_value = None /\ parsed = None /\ record = None
    /\ NoRun

CallParseHeader ==
    /\ pc = "header_call"
    /\ name_party' = parse_candidate_header(header_str)
    /\ pc' = "header_return"
    /\ UNCHANGED <<variant, cellVars, header_str, sheetVars, runVars>>

NextHeader == CallParseHeader

SpecHeader == InitHeader /\ [][NextHeader]_vars

(***************************************************************************)
(* The header parser against its description.                              *)
(***************************************************************************)
\* positions of the parentheses of h
Opens(h) == {i \in 1..Len(h) : h[i] = "("}
Closes(h) == {i \in 1..Len(h) : h[i] = ")"}

\* h is plain text and parenthesized groups that are closed and not nested:
\* the parentheses alternate, "(" first, ")" last
RECURSIVE Grouped(_, _, _)
Grouped(h, i, inside) ==
    IF i > Len(h) THEN ~inside
    ELSE IF h[i] = "(" THEN ~inside /\ Grouped(h, i + 1, TRUE)
    ELSE IF h[i] = ")" THEN inside /\ Grouped(h, i + 1, FALSE)
    ELSE Grouped(h, i + 1, inside)

\* where the trailing "(...)" of h starts, 0 when h does not end with one
TrailingOpen(h) ==
    IF Len(h) >= 1 /\ h[Len(h)] = ")" /\ Opens(h) # {}
    THEN CHOOSE i \in Opens(h) : \A j \in Opens(h) : j <= i
    ELSE 0

\* the decomposition by the trailing parenthesized suffix
BySuffix(h) ==
    IF TrailingOpen(h) = 0 THEN [name |-> Str(h), party |-> None]
    ELSE [name |-> Str(Strip(SubSeq(h, 1, TrailingOpen(h) - 1))),
          party |-> Str(Strip(SubSeq(h, TrailingOpen(h) + 1, Len(h) - 1)))]

HeaderReturned == pc = "header_return" /\ IsStr(header_str)

\* C11: a candidate header is decomposed by its trailing parenthesized
\* suffix: a header without parentheses gives (header, absent), and a header
\* ending with a parenthesized group gives the trimmed text before that group
\* as name and the trimmed text inside it as party, however many groups the
\* header holds.  (Headers with unclosed or nested parentheses are left out.)
C11_HeaderByTrailingSuffix ==
    (HeaderReturned /\ Grouped(Strip(header_str.s), 1, FALSE))
        => name_party = BySuffix(Strip(header_str.s))

\* C11, the part the code keeps: with at most one parenthesized group the
\* header is decomposed by that group
C11_SingleGroupBySuffix ==
    (/\ HeaderReturned
     /\ Grouped(Strip(header_str.s), 1, FALSE)
     /\ Cardinality(Opens(header_str.s)) <= 1)
        => name_party = BySuffix(Strip(header_str.s))


(***************************************************************************)
(* The vote mappings side by side (checked under Spec).                    *)
(***************************************************************************)
\* the row loop stands between two iterations, or the run is past the loop
BetweenRows == pc \in {"loop", "makedirs", "write", "done"}

\* the identifiers of every vote mapping of a dict of entities
SameIdentifiers(entities, order) ==
    \A i \in 1..Len(entities) : Keys(entities[i].val.votes) = order

\* C13: after every completed row, and in the document built and written at
\* the end, every entity's vote mapping holds the same question identifiers in
\* the same order: those of the surviving rows processed so far, in order of
\* first occurrence, one per surviving row at most; an entity whose cell was
\* empty holds a record under the row's identifier like every other entity.
C13_EntitiesShareIdentifiers ==
    /\ BetweenRows =>
         /\ SameIdentifiers(info, seen_rows.order)
         /\ \A i, j \in 1..Len(info) :
                Keys(info[i].val.votes) = Keys(info[j].val.votes)
         /\ Len(seen_rows.order) <= row_index
         /\ \A q \in DOMAIN seen_rows.last :
                ~IsAbsentCell(At(columns, seen_rows.last[q], Statement))
    /\ combined_output # None =>
         /\ SameIdentifiers(combined_output.entities, seen_rows.order)
         /\ Keys(combined_output.entities) = Keys(info)
    /\ output_file # None =>
         SameIdentifiers(output_file.entities, seen_rows.order)

\* a document was written for two entities, one of them with an empty cell in
\* a surviving row whose cell for the other entity was filled
C13_Witness ==
    /\ pc = "done"
    /\ Len(output_file.entities) = 2
    /\ seen_rows.order # <<>>
    /\ \E q \in DOMAIN seen_rows.last :
           /\ At(columns, seen_rows.last[q], EntityA) = NaN
           /\ At(columns, seen_rows.last[q], EntityB) # NaN
           /\ DictGet(DictGet(output_file.entities, EntityA).votes, q).comment
                  \in {MISSING_COMMENT_DEFAULT, missing_comment_default}
           /\ DictGet(DictGet(output_file.entities, EntityB).votes, q).comment
                  = Str(<<"c">>)

====
